---- MODULE Spec2Model ----
(***************************************************************************)
(* A model of app.py, the "Upcoming CRC surgery patients" script:          *)
(*   split_patient_chunks  (tokenizer, classify, segmentation loop)        *)
(*   normalize_date_string, parse_surgery_date                             *)
(*   unify_surgeon_name                                                    *)
(*   extract_with_gpt      (the external call is a nondeterministic input) *)
(*   the script body that assembles, normalizes and sorts the table        *)
(*                                                                         *)
(* A Python str is a sequence of one-character strings; <<>> is "".        *)
(***************************************************************************)
EXTENDS Integers, Sequences, FiniteSets, TLC

VARIABLES
    pc,            \* position of the run
    text,          \* split_patient_chunks: its argument
    tokens,        \* split_patient_chunks: re.findall's result
    idx,           \* split_patient_chunks: index of the next token of the for loop
    seen_types,    \* split_patient_chunks: seen_types
    current,       \* split_patient_chunks: current
    patients,      \* split_patient_chunks: patients
    date_str,      \* normalize_date_string / parse_surgery_date: the argument
    date_norm,     \* normalize_date_string's result
    date_parsed,   \* parse_surgery_date's result
    name,          \* unify_surgeon_name: its argument
    unified,       \* unify_surgeon_name's result
    reply,         \* extract_with_gpt: what the external call does
    returned,      \* extract_with_gpt: the value it returns
    gpt_data,      \* the script: gpt_data, a list of dicts
    columns,       \* the script: the column labels of df, in order
    df,            \* the script: the rows of df, in order
    schedule       \* the script: the table st.dataframe is given

chunkVars == <<text, tokens, idx, seen_types, current, patients>>
dateVars == <<date_str, date_norm, date_parsed>>
unifyVars == <<name, unified>>
adapterVars == <<reply, returned>>
appVars == <<gpt_data, columns, df, schedule>>
vars == <<pc, chunkVars, dateVars, unifyVars, adapterVars, appVars>>

(***************************** characters *********************************)

UpperChars == <<"A","B","C","D","E","F","G","H","I","J","K","L","M",
                "N","O","P","Q","R","S","T","U","V","W","X","Y","Z">>
LowerChars == <<"a","b","c","d","e","f","g","h","i","j","k","l","m",
                "n","o","p","q","r","s","t","u","v","w","x","y","z">>
Digits == {"0","1","2","3","4","5","6","7","8","9"}
UpperSet == {UpperChars[i] : i \in 1..26}
LowerSet == {LowerChars[i] : i \in 1..26}
Whitespace == {" ", "\n", "\t"}

IsDigit(c) == c \in Digits
IsAlpha(c) == c \in UpperSet \cup LowerSet
\* \w of the re module (ASCII part): letters, digits, underscore
IsWordChar(c) == IsAlpha(c) \/ IsDigit(c) \/ c = "_"

\* str.lower() and str.upper() on one character
LowerChar(c) ==
    IF c \in UpperSet THEN LowerChars[CHOOSE i \in 1..26 : UpperChars[i] = c] ELSE c
UpperChar(c) ==
    IF c \in LowerSet THEN UpperChars[CHOOSE i \in 1..26 : LowerChars[i] = c] ELSE c

\* str.lower()
StrLower(s) == [i \in 1..Len(s) |-> LowerChar(s[i])]
\* str.capitalize(): first character upper-cased, the rest lower-cased
StrCapitalize(s) ==
    [i \in 1..Len(s) |-> IF i = 1 THEN UpperChar(s[i]) ELSE LowerChar(s[i])]

\* sep.join(parts)
RECURSIVE StrJoin(_, _)
StrJoin(parts, sep) ==
    IF parts = <<>> THEN <<>>
    ELSE IF Len(parts) = 1 THEN parts[1]
    ELSE parts[1] \o sep \o StrJoin(Tail(parts), sep)

\* s[i:i+len(w)] == w
StartsWithAt(s, i, w) ==
    /\ i + Len(w) - 1 <= Len(s)
    /\ \A k \in 1..Len(w) : s[i + k - 1] = w[k]

\* w in s (substring containment)
Contains(s, w) == \E i \in 1..(Len(s) - Len(w) + 1) : StartsWithAt(s, i, w)

\* number of consecutive characters from position i on that satisfy a class
RECURSIVE DigitRun(_, _)
DigitRun(s, i) ==
    IF i <= Len(s) /\ IsDigit(s[i]) THEN 1 + DigitRun(s, i + 1) ELSE 0
RECURSIVE AlphaRun(_, _)
AlphaRun(s, i) ==
    IF i <= Len(s) /\ IsAlpha(s[i]) THEN 1 + AlphaRun(s, i + 1) ELSE 0

(************************ the fixed vocabularies ***************************)

W_sx == <<"s","x">>
W_or == <<"o","r">>
W_pang == <<"p","a","n","g">>
W_ghitulescu == <<"g","h","i","t","u","l","e","s","c","u">>
W_garfinkle == <<"g","a","r","f","i","n","k","l","e">>
W_faria == <<"f","a","r","i","a">>
W_morin == <<"m","o","r","i","n">>
W_cav == <<"c","a","v">>
W_vasilevsky == <<"v","a","s","i","l","e","v","s","k","y">>

MonthNames == <<
    <<"J","a","n","u","a","r","y">>, <<"F","e","b","r","u","a","r","y">>,
    <<"M","a","r","c","h">>, <<"A","p","r","i","l">>, <<"M","a","y">>,
    <<"J","u","n","e">>, <<"J","u","l","y">>, <<"A","u","g","u","s","t">>,
    <<"S","e","p","t","e","m","b","e","r">>, <<"O","c","t","o","b","e","r">>,
    <<"N","o","v","e","m","b","e","r">>, <<"D","e","c","e","m","b","e","r">> >>

SeqRange(q) == {q[i] : i \in 1..Len(q)}

(******************* split_patient_chunks: the tokenizer *******************)

\* \b at position p: between s[p-1] and s[p] (outside the string counts as non-word)
WordAt(s, p) == p >= 1 /\ p <= Len(s) /\ IsWordChar(s[p])
WordBoundary(s, p) == WordAt(s, p - 1) # WordAt(s, p)

\* the lengths hi, hi-1, ..., lo that do not exceed run: a greedy {lo,hi} quantifier
RECURSIVE GreedyLens(_, _, _)
GreedyLens(hi, lo, run) ==
    IF hi < lo THEN <<>>
    ELSE (IF hi <= run THEN <<hi>> ELSE <<>>) \o GreedyLens(hi - 1, lo, run)

\* a literal alternative: its length when it is a prefix of s[i:]
LitLens(s, i, w) == IF StartsWithAt(s, i, w) THEN <<Len(w)>> ELSE <<>>

RECURSIVE LitsLens(_, _, _)
LitsLens(s, i, ws) ==
    IF ws = <<>> THEN <<>> ELSE LitLens(s, i, Head(ws)) \o LitsLens(s, i, Tail(ws))

\* [- ]? at position p: 1 when a separator is there (taking none then fails on \d)
SepLen(s, p) == IF p <= Len(s) /\ s[p] \in {"-", " "} THEN 1 ELSE 0

\* \d{3}[- ]?\d{3}[- ]?\d{4} at position i: the length matched, 0 when none
PhoneLenAt(s, i) ==
    IF DigitRun(s, i) < 3 THEN 0
    ELSE LET a == i + 3 + SepLen(s, i + 3)
         IN IF DigitRun(s, a) < 3 THEN 0
            ELSE LET b == a + 3 + SepLen(s, a + 3)
                 IN IF DigitRun(s, b) < 4 THEN 0 ELSE b + 4 - i

SurnameLits == <<
    <<"C","A","V">>, <<"P","a","n","g">>, <<"G","a","r","f","i","n","k","l","e">>,
    <<"M","o","r","i","n">>, <<"F","a","r","i","a">>,
    <<"G","h","i","t","u","l","e","s","c","u">>,
    <<"V","a","s","i","l","e","v","s","k","y">> >>

\* The alternatives of the pattern at position i, as the lengths the regex
\* engine tries, in the order it tries them.
CandidateLens(s, i) ==
    \* Dr\.?
    (IF StartsWithAt(s, i, <<"D","r">>)
        THEN (IF StartsWithAt(s, i, <<"D","r",".">>) THEN <<3>> ELSE <<>>) \o <<2>>
        ELSE <<>>)
    \* CAV|Pang|Garfinkle|Morin|Faria|Ghitulescu|Vasilevsky
    \o LitsLens(s, i, SurnameLits)
    \* U\d{5,7}
    \o (IF StartsWithAt(s, i, <<"U">>)
           THEN [k \in DOMAIN GreedyLens(7, 5, DigitRun(s, i + 1)) |->
                    1 + GreedyLens(7, 5, DigitRun(s, i + 1))[k]]
           ELSE <<>>)
    \* \d{5,7}
    \o GreedyLens(7, 5, DigitRun(s, i))
    \* \d{3}[- ]?\d{3}[- ]?\d{4}
    \o (IF PhoneLenAt(s, i) > 0 THEN <<PhoneLenAt(s, i)>> ELSE <<>>)
    \* [A-Za-z]+
    \o GreedyLens(AlphaRun(s, i), 1, AlphaRun(s, i))
    \* sx|OR|January|...|December
    \o LitsLens(s, i, <<W_sx, <<"O","R">> >> \o MonthNames)
    \* \d{1,2}
    \o GreedyLens(2, 1, DigitRun(s, i))

\* the first candidate that ends at a \b
RECURSIVE FirstAtBoundary(_, _, _)
FirstAtBoundary(s, i, lens) ==
    IF lens = <<>> THEN 0
    ELSE IF WordBoundary(s, i + Head(lens)) THEN Head(lens)
    ELSE FirstAtBoundary(s, i, Tail(lens))

\* length of the match of \b(?:...)\b that starts at i; 0 when there is none
MatchLenAt(s, i) ==
    IF ~WordBoundary(s, i) THEN 0 ELSE FirstAtBoundary(s, i, CandidateLens(s, i))

\* re.findall(pattern, text): left to right, non-overlapping
RECURSIVE FindAllFrom(_, _)
FindAllFrom(s, i) ==
    IF i > Len(s) THEN <<>>
    ELSE LET n == MatchLenAt(s, i)
         IN IF n = 0 THEN FindAllFrom(s, i + 1)
            ELSE <<SubSeq(s, i, i + n - 1)>> \o FindAllFrom(s, i + n)

FindAll(s) == FindAllFrom(s, 1)

(******************* split_patient_chunks: classify ************************)

\* re.match(r"\d{5,7}", token): anchored at the start only
MatchesIDPrefix(token) == DigitRun(token, 1) >= 5

\* re.search(r"\d{3}[- ]?\d{3}[- ]?\d{4}", token): anywhere in the token
SearchesPhone(token) == \E i \in 1..Len(token) : PhoneLenAt(token, i) > 0

classify(token) ==
    IF MatchesIDPrefix(token) THEN "ID"
    ELSE IF SearchesPhone(token) THEN "Phone"
    ELSE IF StrLower(token) \in {W_sx, W_or} THEN "Context"
    ELSE IF StrCapitalize(token) \in SeqRange(MonthNames) THEN "Date"
    ELSE IF StrLower(token) \in {W_pang, W_ghitulescu, W_garfinkle, W_faria,
                                 W_morin, W_cav, W_vasilevsky} THEN "Surgeon"
    ELSE "Other"

(******************* split_patient_chunks: inputs **************************)

MaxPieces == 3

\* Pieces the input text is put together from (concatenated as they are).
Lexemes == {
    <<"D","r",".">>,
    <<"P","a","n","g"," ">>,
    <<"c","a","v",","," ">>,
    <<"s","x"," ">>,
    <<"M","a","y"," ">>,
    <<"2","1"," ">>,
    <<"U","1","7","6","4","2","1"," ">>,
    <<"1","7","6","4","2","1","\n">>,
    <<"5","1","4"," ","8","6","7","-","4","7","1","8"," ">>,
    <<"5","1","4","8","6","7","4","7","1","8"," ">>
}

RECURSIVE Flatten(_)
Flatten(ps) == IF ps = <<>> THEN <<>> ELSE Head(ps) \o Flatten(Tail(ps))

Texts == {Flatten(ps) : ps \in UNION {[1..n -> Lexemes] : n \in 0..MaxPieces}}

(******************* split_patient_chunks: the run *************************)

\* the variables of the parts a specification does not run
IdleChunk ==
    /\ text = <<>> /\ tokens = <<>> /\ idx = 1
    /\ seen_types = {} /\ current = <<>> /\ patients = <<>>
IdleDate == date_str = <<>> /\ date_norm = <<>> /\ date_parsed = <<>>
IdleUnify == name = <<>> /\ unified = <<>>
IdleAdapter == reply = <<>> /\ returned = <<>>
IdleApp == gpt_data = <<>> /\ columns = <<>> /\ df = <<>> /\ schedule = <<>>

InitChunk ==
    /\ pc = "start"
    /\ text \in Texts
    /\ tokens = <<>>
    /\ idx = 1
    /\ seen_types = {}
    /\ current = <<>>
    /\ patients = <<>>
    /\ IdleDate /\ IdleUnify /\ IdleAdapter /\ IdleApp

\* tokens = re.findall(...); seen_types = set(); current = []; patients = []
Tokenize ==
    /\ pc = "start"
    /\ tokens' = FindAll(text)
    /\ idx' = 1
    /\ seen_types' = {}
    /\ current' = <<>>
    /\ patients' = <<>>
    /\ pc' = "loop"
    /\ UNCHANGED <<text, dateVars, unifyVars, adapterVars, appVars>>

\* whether the loop body closes the current chunk before taking the token
ClosesChunk(tok_type, seen) == tok_type \in seen /\ tok_type # "Other"

\* A variant of SeenAfter in which the token that closes a chunk is not recorded
\* in the new chunk's set (the add placed in the else branch of the test).
SeenAfter_NotRecorded(tok_type, seen) ==
    IF ClosesChunk(tok_type, seen) THEN {}
    ELSE IF tok_type # "Other" THEN seen \cup {tok_type} ELSE seen

\* seen_types after the loop body
SeenAfter(tok_type, seen) ==
    LET base == IF ClosesChunk(tok_type, seen) THEN {} ELSE seen
    IN IF tok_type # "Other" THEN base \cup {tok_type} ELSE base

\* current after the loop body
CurrentAfter(tok, tok_type, seen, cur) ==
    IF ClosesChunk(tok_type, seen) THEN <<tok>> ELSE Append(cur, tok)

\* one iteration of "for tok in tokens"
LoopStep ==
    /\ pc = "loop"
    /\ idx <= Len(tokens)
    /\ LET tok == tokens[idx]
           tok_type == classify(tok)
       IN /\ patients' = IF ClosesChunk(tok_type, seen_types)
                            THEN Append(patients, StrJoin(current, <<" ">>))
                            ELSE patients
          /\ current' = CurrentAfter(tok, tok_type, seen_types, current)
          /\ seen_types' = SeenAfter(tok_type, seen_types)
    /\ idx' = idx + 1
    /\ UNCHANGED <<pc, text, tokens, dateVars, unifyVars, adapterVars, appVars>>

\* A variant of Flushed without the final flush.
Flushed_NoFlush(cur, pats) == pats

\* patients after "if current: patients.append(" ".join(current))"
Flushed(cur, pats) == IF cur # <<>> THEN Append(pats, StrJoin(cur, <<" ">>)) ELSE pats

\* the end of the loop: flush and return patients
ReturnChunks ==
    /\ pc = "loop"
    /\ idx > Len(tokens)
    /\ patients' = Flushed(current, patients)
    /\ pc' = "done"
    /\ UNCHANGED <<text, tokens, idx, seen_types, current, dateVars, unifyVars, adapterVars, appVars>>

NextChunk == Tokenize \/ LoopStep \/ ReturnChunks

SpecChunk == InitChunk /\ [][NextChunk]_vars

(******************* split_patient_chunks: properties **********************)

\* C1: the chunks returned are lossless: joined in order they are the
\* tokenizer's tokens in order (joined the same way, with single spaces), so
\* no token is dropped, duplicated or reordered.
C1_Lossless ==
    pc = "done" => StrJoin(patients, <<" ">>) = StrJoin(tokens, <<" ">>)

\* C1 is exercised: a run that returned at least two chunks, one of them of
\* at least two tokens.
C1_Witness ==
    /\ pc = "done"
    /\ Len(patients) >= 2
    /\ Len(tokens) > Len(patients)

Categories(toks) == {classify(toks[k]) : k \in 1..Len(toks)}

NoRepeatedCategory(toks) ==
    \A i, j \in 1..Len(toks) :
        (i # j /\ classify(toks[i]) = classify(toks[j])) => classify(toks[i]) = "Other"

\* C2: a loop step closes the current chunk exactly when its token's category
\* is not "Other" and a token of that category is already in the current
\* chunk; the closed chunk is the non-empty current one, the new chunk starts
\* with the token and records its category.  The set of seen categories is
\* the set of non-"Other" categories of the current chunk, which never holds
\* two tokens of one such category, and no chunk returned is empty.
C2_Boundary ==
    /\ [](/\ seen_types = Categories(current) \ {"Other"}
          /\ NoRepeatedCategory(current)
          /\ \A k \in 1..Len(patients) : patients[k] # <<>>)
    /\ [][(pc = "loop" /\ idx <= Len(tokens)) =>
            LET tok == tokens[idx]
                cat == classify(tok)
                repeats == cat # "Other" /\ cat \in Categories(current)
            IN /\ (patients' # patients) <=> repeats
               /\ repeats => /\ current # <<>>
                             /\ patients' = Append(patients, StrJoin(current, <<" ">>))
                             /\ current' = <<tok>>
                             /\ seen_types' = {cat}
               /\ ~repeats => current' = Append(current, tok)
          ]_vars

\* C2 is exercised: a chunk has been closed by a repeated category and the
\* new chunk has recorded the category of the token that closed it.
C2_Witness ==
    /\ pc = "loop"
    /\ Len(patients) >= 1
    /\ Len(current) = 1
    /\ seen_types = {classify(current[1])}
    /\ idx <= Len(tokens)
    /\ classify(tokens[idx]) \in seen_types

\* the ID shape of the tokenizer: U\d{5,7} or \d{5,7}, the whole token
IsIDShaped(token) ==
    \/ DigitRun(token, 1) = Len(token) /\ Len(token) \in 5..7
    \/ /\ Len(token) \in 6..8
       /\ token[1] = "U"
       /\ DigitRun(token, 2) = Len(token) - 1

\* the category the stated precedence gives: ID, Phone, Context, Date, Surgeon
PrecedenceCategory(token) ==
    IF IsIDShaped(token) \/ MatchesIDPrefix(token) THEN "ID"
    ELSE IF SearchesPhone(token) THEN "Phone"
    ELSE IF StrLower(token) \in {W_sx, W_or} THEN "Context"
    ELSE IF StrCapitalize(token) \in SeqRange(MonthNames) THEN "Date"
    ELSE IF StrLower(token) \in {W_pang, W_ghitulescu, W_garfinkle, W_faria,
                                 W_morin, W_cav, W_vasilevsky} THEN "Surgeon"
    ELSE "Other"

\* C10: every token the tokenizer emits is classified by the first category of
\* the precedence ID, Phone, Context, Date, Surgeon it matches; in particular
\* every ID-shaped token, with or without the U prefix, is classified ID.
C10_Precedence ==
    \A k \in 1..Len(tokens) :
        /\ classify(tokens[k]) = PrecedenceCategory(tokens[k])
        /\ IsIDShaped(tokens[k]) => classify(tokens[k]) = "ID"

(************** normalize_date_string and parse_surgery_date ***************)

\* number of consecutive whitespace / non-whitespace characters from i on
RECURSIVE SpaceRun(_, _)
SpaceRun(s, i) ==
    IF i <= Len(s) /\ s[i] \in Whitespace THEN 1 + SpaceRun(s, i + 1) ELSE 0
RECURSIVE InkRun(_, _)
InkRun(s, i) ==
    IF i <= Len(s) /\ s[i] \notin Whitespace THEN 1 + InkRun(s, i + 1) ELSE 0

\* str.split(): the runs of non-whitespace characters, in order
RECURSIVE SplitFrom(_, _)
SplitFrom(s, i) ==
    IF i > Len(s) THEN <<>>
    ELSE IF s[i] \in Whitespace THEN SplitFrom(s, i + SpaceRun(s, i))
    ELSE <<SubSeq(s, i, i + InkRun(s, i) - 1)>> \o SplitFrom(s, i + InkRun(s, i))

StrSplit(s) == SplitFrom(s, 1)

\* str.strip()
StrStrip(s) ==
    IF SpaceRun(s, 1) = Len(s) THEN <<>>
    ELSE LET a == 1 + SpaceRun(s, 1)
             b == CHOOSE k \in a..Len(s) :
                      s[k] \notin Whitespace /\ \A j \in (k + 1)..Len(s) : s[j] \in Whitespace
         IN SubSeq(s, a, b)

\* A variant of IsNewToken that compares the tokens as written (no .lower()).
IsNewToken_CaseSensitive(token, seen) ==
    token \notin SeqRange(seen)

\* token_lower not in [t.lower() for t in seen]
IsNewToken(token, seen) ==
    StrLower(token) \notin {StrLower(seen[k]) : k \in 1..Len(seen)}

\* the for loop of normalize_date_string, from the tokens left, seen and result
RECURSIVE DedupLoop(_, _, _)
DedupLoop(toks, seen, result) ==
    IF toks = <<>> THEN result
    ELSE IF IsNewToken(Head(toks), seen)
         THEN DedupLoop(Tail(toks), Append(seen, Head(toks)), Append(result, Head(toks)))
         ELSE DedupLoop(Tail(toks), seen, result)

normalize_date_string(s) == StrJoin(DedupLoop(StrSplit(s), <<>>, <<>>), <<" ">>)

\* the month names of the C locale, as %b and %B read them (case-insensitively)
AbbrMonths == <<
    <<"j","a","n">>, <<"f","e","b">>, <<"m","a","r">>, <<"a","p","r">>,
    <<"m","a","y">>, <<"j","u","n">>, <<"j","u","l">>, <<"a","u","g">>,
    <<"s","e","p">>, <<"o","c","t">>, <<"n","o","v">>, <<"d","e","c">> >>
FullMonths == [m \in 1..12 |-> StrLower(MonthNames[m])]

DigitSeq == <<"0","1","2","3","4","5","6","7","8","9">>
DigitVal(c) == (CHOOSE k \in 1..10 : DigitSeq[k] = c) - 1

\* %d of strptime at position q: 3[0-1]|[1-2]\d|0[1-9]|[1-9]| [1-9], as the
\* <<length, value>> pairs the regex engine tries, in order
DayCands(s, q) ==
    LET d1 == IF q <= Len(s) /\ IsDigit(s[q]) THEN DigitVal(s[q]) ELSE 0 - 1
        d2 == IF q + 1 <= Len(s) /\ IsDigit(s[q + 1]) THEN DigitVal(s[q + 1]) ELSE 0 - 1
    IN (IF d1 = 3 /\ d2 \in 0..1 THEN << <<2, 30 + d2>> >> ELSE <<>>)
       \o (IF d1 \in 1..2 /\ d2 \in 0..9 THEN << <<2, 10 * d1 + d2>> >> ELSE <<>>)
       \o (IF d1 = 0 /\ d2 \in 1..9 THEN << <<2, d2>> >> ELSE <<>>)
       \o (IF d1 \in 1..9 THEN << <<1, d1>> >> ELSE <<>>)
       \o (IF q <= Len(s) /\ s[q] = " " /\ d2 \in 1..9 THEN << <<2, d2>> >> ELSE <<>>)

\* \s+(?P<Y>\d\d\d\d) from position p to the end of the string: the year, or -1
YearTail(s, p) ==
    LET w == SpaceRun(s, p)
        y == p + w
    IN IF w >= 1 /\ DigitRun(s, y) >= 4 /\ y + 3 = Len(s)
       THEN 1000 * DigitVal(s[y]) + 100 * DigitVal(s[y + 1])
            + 10 * DigitVal(s[y + 2]) + DigitVal(s[y + 3])
       ELSE 0 - 1

DaysInMonth(y, m) ==
    IF m = 2
    THEN (IF (y % 4 = 0 /\ y % 100 # 0) \/ y % 400 = 0 THEN 29 ELSE 28)
    ELSE IF m \in {4, 6, 9, 11} THEN 30 ELSE 31

\* the first day candidate (after ws whitespace characters that start at p)
\* that the rest of the format follows: <<day, year>>, or <<>>
RECURSIVE FirstDay(_, _, _, _)
FirstDay(s, p, ws, cands) ==
    IF ws < 1 THEN <<>>
    ELSE LET hit == [k \in 1..Len(cands) |-> YearTail(s, p + ws + cands[k][1])]
             ok == {k \in 1..Len(cands) : hit[k] >= 0}
         IN IF ok # {}
            THEN LET k == CHOOSE k \in ok : \A j \in ok : k <= j
                 IN <<cands[k][2], hit[k]>>
            ELSE FirstDay(s, p, ws - 1, DayCands(s, p + ws - 1))

\* the value datetime.datetime.strptime(s, "<month> %d %Y") returns, months
\* being the names its month directive reads: <<year, month, day>>, or <<>>
\* where it raises ValueError
Strptime(s, months) ==
    LET ms == {m \in 1..12 : StartsWithAt(StrLower(s), 1, months[m])}
    IN IF ms = {} THEN <<>>
       ELSE LET m == CHOOSE m \in ms : TRUE
                p == 1 + Len(months[m])
                ws == SpaceRun(s, p)
                dy == FirstDay(s, p, ws, DayCands(s, p + ws))
            IN IF dy = <<>> THEN <<>>
               ELSE IF dy[2] < 1 \/ dy[1] > DaysInMonth(dy[2], m) THEN <<>>
               ELSE <<dy[2], m, dy[1]>>

Year2025 == <<" ","2","0","2","5">>

\* parse_surgery_date: <<year, month, day>>, or <<>> for None
parse_surgery_date(s) ==
    IF StrStrip(s) = <<>> THEN <<>>
    ELSE LET normalized == normalize_date_string(StrStrip(s))
             abbr == Strptime(normalized \o Year2025, AbbrMonths)
         IN IF abbr # <<>> THEN abbr
            ELSE Strptime(normalized \o Year2025, FullMonths)

MaxDateParts == 3

DateParts == {
    <<"J","a","n">>, <<"j","a","n">>, <<"J","A","N"," ">>,
    <<"M","a","r","c","h"," ">>, <<"F","e","b"," ">>,
    <<"2","1">>, <<"3","0"," ">>, <<"5">>, <<" ">>, <<"\n","\t">>
}

DateStrings == {Flatten(ps) : ps \in UNION {[1..n -> DateParts] : n \in 0..MaxDateParts}}

InitDate ==
    /\ pc = "start"
    /\ date_str \in DateStrings
    /\ date_norm = <<>>
    /\ date_parsed = <<>>
    /\ IdleChunk /\ IdleUnify /\ IdleAdapter /\ IdleApp

\* date_norm = normalize_date_string(date_str)
Normalize ==
    /\ pc = "start"
    /\ date_norm' = normalize_date_string(date_str)
    /\ pc' = "normalized"
    /\ UNCHANGED <<date_str, date_parsed, chunkVars, unifyVars, adapterVars, appVars>>

\* date_parsed = parse_surgery_date(date_norm), as the script applies it
Parse ==
    /\ pc = "normalized"
    /\ date_parsed' = parse_surgery_date(date_norm)
    /\ pc' = "parsed"
    /\ UNCHANGED <<date_str, date_norm, chunkVars, unifyVars, adapterVars, appVars>>

NextDate == Normalize \/ Parse

SpecDate == InitDate /\ [][NextDate]_vars

(******************* normalize_date_string: properties *********************)

\* the positions at which a whitespace-delimited token of s starts
TokenStarts(s) ==
    {i \in 1..Len(s) : s[i] \notin Whitespace /\ (i = 1 \/ s[i - 1] \in Whitespace)}

\* the whitespace-delimited token of s that starts at i
TokenAt(s, i) ==
    LET e == CHOOSE j \in i..Len(s) :
                 /\ \A k \in i..j : s[k] \notin Whitespace
                 /\ (j = Len(s) \/ s[j + 1] \in Whitespace)
    IN SubSeq(s, i, e)

\* the token starts whose token equals no earlier token, case-insensitively
FirstOccurrences(s) ==
    {i \in TokenStarts(s) :
        \A j \in TokenStarts(s) :
            j < i => StrLower(TokenAt(s, j)) # StrLower(TokenAt(s, i))}

RECURSIVE Ascending(_)
Ascending(S) ==
    IF S = {} THEN <<>>
    ELSE LET m == CHOOSE x \in S : \A y \in S : x <= y
         IN <<m>> \o Ascending(S \ {m})

Deduplicated(s) ==
    LET at == Ascending(FirstOccurrences(s))
    IN StrJoin([k \in 1..Len(at) |-> TokenAt(s, at[k])], <<" ">>)

\* C9: normalize_date_string returns the whitespace-delimited tokens of its
\* argument joined by single spaces, without the tokens that equal an earlier
\* token case-insensitively (first occurrence kept, as written, in order); the
\* empty string gives the empty string, and normalizing the result again
\* changes nothing.
C9_Normalize ==
    pc # "start" =>
        /\ date_norm = Deduplicated(date_str)
        /\ (date_str = <<>> => date_norm = <<>>)
        /\ normalize_date_string(date_norm) = date_norm

\* C9 is exercised: a string of three tokens, two of which differ only in
\* case, has been normalized to two tokens.
C9_Witness ==
    /\ pc = "normalized"
    /\ Cardinality(TokenStarts(date_str)) = 3
    /\ Cardinality(TokenStarts(date_norm)) = 2
    /\ \E i, j \in TokenStarts(date_str) :
           /\ i < j
           /\ TokenAt(date_str, i) # TokenAt(date_str, j)
           /\ StrLower(TokenAt(date_str, i)) = StrLower(TokenAt(date_str, j))

(************************* unify_surgeon_name ******************************)

\* str.replace(".", "")
RECURSIVE RemoveDots(_)
RemoveDots(s) ==
    IF s = <<>> THEN <<>>
    ELSE (IF Head(s) = "." THEN <<>> ELSE <<Head(s)>>) \o RemoveDots(Tail(s))

\* str.title(): a letter is upper-cased after a non-letter and lower-cased
\* after a letter
StrTitle(s) ==
    [i \in 1..Len(s) |->
        IF i > 1 /\ IsAlpha(s[i - 1]) THEN LowerChar(s[i]) ELSE UpperChar(s[i])]

DrVasilevsky == <<"D","r","."," ","V","a","s","i","l","e","v","s","k","y">>
W_dr_v == <<"d","r"," ","v">>

\* the synonyms dict, in its order: <<key, value>>
Synonyms == <<
    <<W_pang, <<"D","r","."," ","P","a","n","g">> >>,
    <<W_ghitulescu, <<"D","r","."," ","G","h","i","t","u","l","e","s","c","u">> >>,
    <<W_garfinkle, <<"D","r","."," ","G","a","r","f","i","n","k","l","e">> >>,
    <<W_faria, <<"D","r","."," ","F","a","r","i","a">> >>,
    <<W_morin, <<"D","r","."," ","M","o","r","i","n">> >> >>

\* the for loop over synonyms.items(), then the fall-through return
RECURSIVE SynonymOr(_, _, _)
SynonymOr(normalized, syns, nm) ==
    IF syns = <<>> THEN StrTitle(nm)
    ELSE IF Contains(normalized, Head(syns)[1]) THEN Head(syns)[2]
    ELSE SynonymOr(normalized, Tail(syns), nm)

\* the test that guards the return of "Dr. Vasilevsky"
IsVasilevsky(normalized) ==
    \/ normalized \in {W_dr_v, <<"d","r","v">>, <<"v">>, W_cav}
    \/ Contains(normalized, W_dr_v)
    \/ Contains(normalized, W_vasilevsky)

\* unify_surgeon_name, for a str argument
unify_surgeon_name(nm) ==
    IF nm = <<>> THEN nm
    ELSE LET normalized == StrStrip(RemoveDots(StrLower(nm)))
         IN IF IsVasilevsky(normalized) THEN DrVasilevsky
            ELSE SynonymOr(normalized, Synonyms, nm)

MaxNameParts == 3

NameParts == {
    <<>>, <<"D","r">>, <<"d","r",".">>, <<"V">>, <<"V",".">>, <<"D","r",".","V">>,
    <<"C","A","V">>, <<"c","a","v">>, <<"V","a","s","i","l","e","v","s","k","y">>,
    <<"P","a","n","g">>, <<"m","O","R","I","N">>, <<"l","e","e">>
}

\* the names tried: up to MaxNameParts parts, separated by single spaces
Names == {StrJoin(ps, <<" ">>) : ps \in UNION {[1..n -> NameParts] : n \in 0..MaxNameParts}}

InitUnify ==
    /\ pc = "start"
    /\ name \in Names
    /\ unified = <<>>
    /\ IdleChunk /\ IdleDate /\ IdleAdapter /\ IdleApp

\* unified = unify_surgeon_name(name)
Unify ==
    /\ pc = "start"
    /\ unified' = unify_surgeon_name(name)
    /\ pc' = "done"
    /\ UNCHANGED <<name, chunkVars, dateVars, adapterVars, appVars>>

NextUnify == Unify

SpecUnify == InitUnify /\ [][NextUnify]_vars

\* the four spellings, lower-cased
VasilevskySpellings ==
    {W_vasilevsky, W_dr_v, W_cav, <<"d","r","."," ","v",".">>}

\* C3: a name that contains "vasilevsky", "dr v", "CAV" or "Dr. V." in any
\* letter case, alone or inside a longer string, is unified to
\* "Dr. Vasilevsky".
C3_Vasilevsky ==
    (pc = "done" /\ \E w \in VasilevskySpellings : Contains(StrLower(name), w))
        => unified = DrVasilevsky

(***************************** extract_with_gpt ****************************)

\* str.startswith and str.endswith
StartsWith(s, w) == StartsWithAt(s, 1, w)
EndsWith(s, w) == Len(w) <= Len(s) /\ StartsWithAt(s, Len(s) - Len(w) + 1, w)

\* the backquote character, which a TLA+ string cannot hold, is written "~"
Backquote == "~"
Fence == <<Backquote, Backquote, Backquote>>
FenceJson == Fence \o <<"j","s","o","n">>

\* content between .strip() and json.loads: the fences taken off
Unfenced(content) ==
    LET c0 == StrStrip(content)
        c1 == IF StartsWith(c0, FenceJson) THEN SubSeq(c0, 8, Len(c0))
              ELSE IF StartsWith(c0, Fence) THEN SubSeq(c0, 4, Len(c0))
              ELSE c0
    IN IF EndsWith(c1, Fence) THEN SubSeq(c1, 1, Len(c1) - 3) ELSE c1

\* A decoded JSON value is [t |-> its type, v |-> its content]:
\*   "str": the characters; "int": the number; "null": <<>>;
\*   "list": the sequence of its values; "dict": the sequence of its
\*   <<key characters, value>> items.
\* The decoder reads JSON without escapes, fractions, signs, true and false.

SkipWs(s, i) == i + SpaceRun(s, i)

\* the number a run of n digits from position i on stands for
RECURSIVE DigitsValue(_, _, _)
DigitsValue(s, i, n) ==
    IF n = 0 THEN 0 ELSE 10 * DigitsValue(s, i, n - 1) + DigitVal(s[i + n - 1])

\* position of the first double quote at or after i, 0 when there is none
RECURSIVE QuoteFrom(_, _)
QuoteFrom(s, i) ==
    IF i > Len(s) THEN 0 ELSE IF s[i] = "\"" THEN i ELSE QuoteFrom(s, i + 1)

NoValue == [ok |-> FALSE, val |-> <<>>, next |-> 0]

RECURSIVE ScanValue(_, _)
RECURSIVE ScanElements(_, _, _)
RECURSIVE ScanMembers(_, _, _)

\* scanner.scan_once at position i: [ok, val, next]
ScanValue(s, i) ==
    IF i > Len(s) THEN NoValue
    ELSE IF s[i] = "\"" THEN
        LET q == QuoteFrom(s, i + 1)
        IN IF q = 0 THEN NoValue
           ELSE [ok |-> TRUE, val |-> [t |-> "str", v |-> SubSeq(s, i + 1, q - 1)],
                 next |-> q + 1]
    ELSE IF s[i] = "[" THEN
        LET k == SkipWs(s, i + 1)
        IN IF k <= Len(s) /\ s[k] = "]"
           THEN [ok |-> TRUE, val |-> [t |-> "list", v |-> <<>>], next |-> k + 1]
           ELSE ScanElements(s, k, <<>>)
    ELSE IF s[i] = "{" THEN
        LET k == SkipWs(s, i + 1)
        IN IF k <= Len(s) /\ s[k] = "}"
           THEN [ok |-> TRUE, val |-> [t |-> "dict", v |-> <<>>], next |-> k + 1]
           ELSE ScanMembers(s, k, <<>>)
    ELSE IF StartsWithAt(s, i, <<"n","u","l","l">>) THEN
        [ok |-> TRUE, val |-> [t |-> "null", v |-> <<>>], next |-> i + 4]
    ELSE IF IsDigit(s[i]) THEN
        LET n == IF s[i] = "0" THEN 1 ELSE DigitRun(s, i)
        IN [ok |-> TRUE, val |-> [t |-> "int", v |-> DigitsValue(s, i, n)], next |-> i + n]
    ELSE NoValue

\* JSONArray after "[": the values from position i on, acc being those read
ScanElements(s, i, acc) ==
    LET e == ScanValue(s, i)
    IN IF ~e.ok THEN NoValue
       ELSE LET k == SkipWs(s, e.next)
            IN IF k > Len(s) THEN NoValue
               ELSE IF s[k] = "]"
                    THEN [ok |-> TRUE, val |-> [t |-> "list", v |-> Append(acc, e.val)],
                          next |-> k + 1]
               ELSE IF s[k] = ","
                    THEN ScanElements(s, SkipWs(s, k + 1), Append(acc, e.val))
               ELSE NoValue

\* JSONObject after "{": the items from position i on, acc being those read
ScanMembers(s, i, acc) ==
    IF i > Len(s) \/ s[i] # "\"" THEN NoValue
    ELSE LET key == ScanValue(s, i)
         IN IF ~key.ok THEN NoValue
            ELSE LET c == SkipWs(s, key.next)
                 IN IF c > Len(s) \/ s[c] # ":" THEN NoValue
                    ELSE LET e == ScanValue(s, SkipWs(s, c + 1))
                         IN IF ~e.ok THEN NoValue
                            ELSE LET k == SkipWs(s, e.next)
                                     items == Append(acc, <<key.val.v, e.val>>)
                                 IN IF k > Len(s) THEN NoValue
                                    ELSE IF s[k] = "}"
                                         THEN [ok |-> TRUE,
                                               val |-> [t |-> "dict", v |-> items],
                                               next |-> k + 1]
                                    ELSE IF s[k] = ","
                                         THEN ScanMembers(s, SkipWs(s, k + 1), items)
                                    ELSE NoValue

\* json.loads(s): [ok, val]; not ok where it raises JSONDecodeError
JsonLoads(s) ==
    LET r == ScanValue(s, SkipWs(s, 1))
    IN IF r.ok /\ SkipWs(s, r.next) = Len(s) + 1
       THEN [ok |-> TRUE, val |-> r.val]
       ELSE [ok |-> FALSE, val |-> <<>>]

K_Error == <<"E","r","r","o","r">>

\* [{"Error": str(e)}]; str(e) is written as the one-element sequence that
\* names the exception
ErrorMarker(exception) ==
    [t |-> "list",
     v |-> << [t |-> "dict", v |-> << <<K_Error, [t |-> "str", v |-> exception]>> >>] >>]

\* what extract_with_gpt returns: reply.raises names the exception raised in
\* the try block before the content is there (by the call, or by .strip() on a
\* content of None), <<>> when none is; reply.content is the message content
extract_with_gpt(r) ==
    IF r.raises # <<>> THEN ErrorMarker(r.raises)
    ELSE LET loaded == JsonLoads(Unfenced(r.content))
         IN IF loaded.ok THEN loaded.val ELSE ErrorMarker(<<"JSONDecodeError">>)

B_Empty == <<"[","]">>
B_OneRecord == <<"[","{","\"","S","u","r","g","e","o","n","\"",":"," ","\"","D","r"," ","V","\"",","," ","\"","P","h","o","n","e","\"",":"," ","\"","\"","}","]">>
B_TwoRecords == <<"[","{","\"","S","u","r","g","e","o","n","\"",":","\"","p","a","n","g","\"","}",",","\n"," ","{","\"","P","a","t","i","e","n","t"," ","I","D","\"",":","\"","U","1","7","\"","}","]">>
B_Object == <<"{","\"","S","u","r","g","e","o","n","\"",":"," ","\"","D","r"," ","V","\"","}">>
B_String == <<"\"","n","o"," ","p","a","t","i","e","n","t","s","\"">>
B_Number == <<"4","2">>
B_Null == <<"n","u","l","l">>
B_ListOfNumbers == <<"[","1",","," ","2","]">>
B_ListMixed == <<"[","{","\"","S","u","r","g","e","o","n","\"",":"," ","\"","p","a","n","g","\"","}",","," ","\"","x","\"","]">>
B_Prose == <<"S","o","r","r","y",","," ","I"," ","c","a","n","n","o","t">>
B_Truncated == <<"[","{","\"","S","u","r","g","e","o","n","\"",":"," ","\"","p","a","n","g","\"","}">>
B_TrailingComma == <<"[","{","\"","S","u","r","g","e","o","n","\"",":"," ","\"","p","a","n","g","\"","}",",","]">>
B_Nothing == <<>>

ReplyBodies == {B_Empty, B_OneRecord, B_TwoRecords, B_Object, B_String, B_Number,
                B_Null, B_ListOfNumbers, B_ListMixed, B_Prose, B_Truncated,
                B_TrailingComma, B_Nothing}
ReplyOpenings == {<<>>, <<" ">>, FenceJson \o <<"\n">>, Fence \o <<"\n">>}
ReplyEndings == {<<>>, <<"\n">>, <<"\n">> \o Fence, <<"\n">> \o Fence \o <<"\n">>}

Replies ==
    {[raises |-> <<>>, content |-> a \o b \o z] :
        a \in ReplyOpenings, b \in ReplyBodies, z \in ReplyEndings}
    \cup {[raises |-> <<e>>, content |-> <<>>] :
             e \in {"APIConnectionError", "AuthenticationError", "AttributeError"}}

InitAdapter ==
    /\ pc = "start"
    /\ reply \in Replies
    /\ returned = <<>>
    /\ IdleChunk /\ IdleDate /\ IdleUnify /\ IdleApp

\* gpt_data = extract_with_gpt(patient_chunks)
Extract ==
    /\ pc = "start"
    /\ returned' = extract_with_gpt(reply)
    /\ pc' = "returned"
    /\ UNCHANGED <<reply, chunkVars, dateVars, unifyVars, appVars>>

NextAdapter == Extract

SpecAdapter == InitAdapter /\ [][NextAdapter]_vars

IsListOfDicts(val) ==
    /\ val.t = "list"
    /\ \A k \in 1..Len(val.v) : val.v[k].t = "dict"

IsErrorMarker(val) ==
    /\ val.t = "list"
    /\ Len(val.v) = 1
    /\ val.v[1].t = "dict"
    /\ Len(val.v[1].v) = 1
    /\ val.v[1].v[1][1] = K_Error
    /\ val.v[1].v[1][2].t = "str"

\* C4: extract_with_gpt returns the error marker list on every failure of the
\* call or of its response: a raised fault, text that does not decode, or
\* decoded content that is not a JSON array of objects; otherwise it returns
\* the decoded list of records.
C4_ErrorMarkerOrRecords ==
    pc = "returned" =>
        LET loaded == JsonLoads(Unfenced(reply.content))
            failed == \/ reply.raises # <<>>
                      \/ ~loaded.ok
                      \/ ~IsListOfDicts(loaded.val)
        IN IF failed THEN IsErrorMarker(returned)
           ELSE returned = loaded.val /\ IsListOfDicts(returned)

(*********************** the script: assembling the table ******************)

\* A dict is the sequence of its <<key, value>> items, in insertion order.
DictKeys(d) == {d[k][1] : k \in 1..Len(d)}
DictGet(d, key) == d[CHOOSE k \in 1..Len(d) : d[k][1] = key][2]

\* float("nan"), the value pandas gives a cell whose record lacks the column's
\* key: not a str (every str is a sequence of one-character strings)
NaN == <<"NaN">>

expected_cols == <<"Surgeon", "Patient Name", "Patient ID", "Surgery Date", "Phone">>

\* the column labels of pd.DataFrame(data): the keys, in order of first appearance
RECURSIVE AddKeys(_, _)
AddKeys(cols, d) ==
    IF d = <<>> THEN cols
    ELSE AddKeys(IF Head(d)[1] \in SeqRange(cols) THEN cols ELSE Append(cols, Head(d)[1]),
                 Tail(d))
RECURSIVE FrameColumns(_, _)
FrameColumns(cols, data) ==
    IF data = <<>> THEN cols ELSE FrameColumns(AddKeys(cols, Head(data)), Tail(data))

\* the rows of pd.DataFrame(data): row i has the index label i - 1 and a cell
\* for every column, NaN where record i has no such key
FrameRows(data) ==
    LET cols == SeqRange(FrameColumns(<<>>, data))
    IN [i \in 1..Len(data) |->
           [label |-> i - 1,
            cell |-> [c \in cols |-> IF c \in DictKeys(data[i])
                                        THEN DictGet(data[i], c) ELSE NaN]]]

\* df[col] = value, for a scalar value
SetColumn(rows, col, value) ==
    [i \in 1..Len(rows) |->
        [rows[i] EXCEPT !.cell =
            [c \in DOMAIN rows[i].cell \cup {col} |->
                IF c = col THEN value ELSE rows[i].cell[c]]]]

\* df[col] = df[col].apply(f) when f raises on no cell: f is given as its table
MapColumn(rows, col, f) ==
    [i \in 1..Len(rows) |-> [rows[i] EXCEPT !.cell[col] = f[rows[i].cell[col]]]]

ColumnValues(rows, col) == {rows[i].cell[col] : i \in 1..Len(rows)}

\* "for col in expected_cols: if col not in df.columns: df[col] = ''"
RECURSIVE FillMissing(_, _, _)
FillMissing(cols, rows, todo) ==
    IF todo = <<>> THEN <<cols, rows>>
    ELSE IF Head(todo) \in SeqRange(cols) THEN FillMissing(cols, rows, Tail(todo))
    ELSE FillMissing(Append(cols, Head(todo)), SetColumn(rows, Head(todo), <<>>),
                     Tail(todo))

\* Series.str.replace(r"^[Uu]\s*", "", regex=True) on one cell: NaN stays NaN
StripIDPrefix(v) ==
    IF v = NaN THEN NaN
    ELSE IF v # <<>> /\ v[1] \in {"U", "u"}
         THEN SubSeq(v, 2 + SpaceRun(v, 2), Len(v))
         ELSE v

\* datetime's order on <<year, month, day>>
DateBefore(a, b) ==
    \/ a[1] < b[1]
    \/ a[1] = b[1] /\ a[2] < b[2]
    \/ a[1] = b[1] /\ a[2] = b[2] /\ a[3] < b[3]

\* pandas' null test on a ParsedDate cell (None)
IsNull(k) == k = <<>>

IndexPermutations(n) == {p \in [1..n -> 1..n] : \A i, j \in 1..n : p[i] = p[j] => i = j}

\* A variant of SortOrders that puts the rows without a date first.
SortOrders_NullsFirst(keys) ==
    {p \in IndexPermutations(Len(keys)) :
        \A i, j \in 1..Len(keys) : i < j =>
            /\ IsNull(keys[p[j]]) => IsNull(keys[p[i]])
            /\ (~IsNull(keys[p[i]]) /\ ~IsNull(keys[p[j]]))
                   => ~DateBefore(keys[p[j]], keys[p[i]])
            /\ (IsNull(keys[p[i]]) /\ IsNull(keys[p[j]])) => p[i] < p[j]}

\* The orders df.sort_values("ParsedDate", ascending=True, na_position="last")
\* can give, as the permutations p (row i of the result is row p[i]): no kind
\* is passed, so the sort is NumPy's quicksort, which is not stable: rows with
\* a date come in ascending order, rows of equal dates in any order; the rows
\* without a date are put after them, in their original order.
SortOrders(keys) ==
    {p \in IndexPermutations(Len(keys)) :
        \A i, j \in 1..Len(keys) : i < j =>
            /\ IsNull(keys[p[i]]) => IsNull(keys[p[j]])
            /\ (~IsNull(keys[p[i]]) /\ ~IsNull(keys[p[j]]))
                   => ~DateBefore(keys[p[j]], keys[p[i]])
            /\ (IsNull(keys[p[i]]) /\ IsNull(keys[p[j]])) => p[i] < p[j]}

\* A variant of Selected that keeps every column but ParsedDate.
Selected_KeepAll(cols) == SelectSeq(cols, LAMBDA c : c # "ParsedDate")

\* the column labels after df.drop(columns=["ParsedDate"]) and df[expected_cols]
Selected(cols) == expected_cols

\* DataFrame.fillna("") on one cell
FillNa(v) == IF v = NaN THEN <<>> ELSE v

MaxRecords == 3

R_VasilevskyJan5 ==
    << <<"Surgeon", <<"D","r"," ","V">>>>,
       <<"Patient Name", <<"A","n","n">>>>,
       <<"Patient ID", <<"U"," ","1","7","6","4","2","1">>>>,
       <<"Surgery Date", <<"J","a","n"," ","5">>>>,
       <<"Phone", <<"5","1","4","-","8","6","7","-","4","7","1","8">>>> >>
R_PangJan5Twice ==
    << <<"Surgeon", <<"p","a","n","g">>>>,
       <<"Patient Name", <<"B","o","b">>>>,
       <<"Patient ID", <<"7","9","8","7","0","9">>>>,
       <<"Surgery Date", <<"j","a","n"," ","J","a","n"," ","5">>>>,
       <<"Phone", <<"5","1","4"," ","3","2","1"," ","9","1","7","7">>>> >>
R_MorinMarch2 ==
    << <<"Surgeon", <<"D","r","."," ","M","o","r","i","n">>>>,
       <<"Patient Name", <<"C","y">>>>,
       <<"Patient ID", <<"u","1","2","3","4","5">>>>,
       <<"Surgery Date", <<"M","a","r","c","h"," ","2">>>>,
       <<"Phone", <<>>>> >>
R_DateSoon ==
    << <<"Surgeon", <<"l","e","e">>>>,
       <<"Patient Name", <<"D","i">>>>,
       <<"Patient ID", <<"5","5","5","5","5">>>>,
       <<"Surgery Date", <<"s","o","o","n">>>>,
       <<"Phone", <<>>>> >>
R_DateEmpty ==
    << <<"Surgeon", <<>>>>,
       <<"Patient Name", <<"E","d">>>>,
       <<"Patient ID", <<>>>>,
       <<"Surgery Date", <<>>>>,
       <<"Phone", <<>>>> >>
R_NoPhoneNoID ==
    << <<"Patient Name", <<"F","l","o">>>>,
       <<"Surgery Date", <<"F","e","b"," ","1">>>>,
       <<"Surgeon", <<"C","A","V">>>> >>
R_NoDate ==
    << <<"Surgeon", <<"F","a","r","i","a">>>>,
       <<"Patient Name", <<"G","u","s">>>>,
       <<"Patient ID", <<"6","6","6","6","6">>>>,
       <<"Phone", <<>>>> >>
R_NoSurgeon ==
    << <<"Patient Name", <<"H","a","l">>>>,
       <<"Patient ID", <<"7","7","7","7","7">>>>,
       <<"Surgery Date", <<"J","a","n"," ","5">>>>,
       <<"Phone", <<>>>> >>
R_Error ==
    << <<"Error", <<"C","o","n","n","e","c","t","i","o","n"," ","e","r","r","o","r",".">>>> >>

RecordPool == {R_VasilevskyJan5, R_PangJan5Twice, R_MorinMarch2, R_DateSoon,
               R_DateEmpty, R_NoPhoneNoID, R_NoDate, R_NoSurgeon}

\* the lists of up to MaxRecords records of the pool, no record twice
RecordLists ==
    {l \in UNION {[1..n -> RecordPool] : n \in 0..MaxRecords} :
        \A i, j \in 1..Len(l) : l[i] = l[j] => i = j}

\* what extract_with_gpt has returned: the error marker list, or a list of
\* records
InitApp ==
    /\ pc = "start"
    /\ gpt_data \in {<<R_Error>>} \cup RecordLists
    /\ columns = <<>>
    /\ df = <<>>
    /\ schedule = <<>>
    /\ IdleChunk /\ IdleDate /\ IdleUnify /\ IdleAdapter

\* df = pd.DataFrame(gpt_data)
BuildFrame ==
    /\ pc = "start"
    /\ columns' = FrameColumns(<<>>, gpt_data)
    /\ df' = FrameRows(gpt_data)
    /\ pc' = "frame"
    /\ UNCHANGED <<gpt_data, schedule, chunkVars, dateVars, unifyVars, adapterVars>>

\* for col in expected_cols: if col not in df.columns: df[col] = ""
FillColumns ==
    /\ pc = "frame"
    /\ columns' = FillMissing(columns, df, expected_cols)[1]
    /\ df' = FillMissing(columns, df, expected_cols)[2]
    /\ pc' = "filled"
    /\ UNCHANGED <<gpt_data, schedule, chunkVars, dateVars, unifyVars, adapterVars>>

\* df["Surgeon"] = df["Surgeon"].apply(unify_surgeon_name): on a NaN cell
\* "not name" is false and name.lower() raises AttributeError, which ends the run
UnifySurgeons ==
    /\ pc = "filled"
    /\ IF NaN \in ColumnValues(df, "Surgeon")
       THEN pc' = "aborted" /\ df' = df
       ELSE /\ df' = MapColumn(df, "Surgeon",
                        [v \in ColumnValues(df, "Surgeon") |-> unify_surgeon_name(v)])
            /\ pc' = "unified"
    /\ UNCHANGED <<gpt_data, columns, schedule, chunkVars, dateVars, unifyVars, adapterVars>>

\* df["Patient ID"] = df["Patient ID"].str.replace(r"^[Uu]\s*", "", regex=True)
StripIDs ==
    /\ pc = "unified"
    /\ df' = MapColumn(df, "Patient ID",
                 [v \in ColumnValues(df, "Patient ID") |-> StripIDPrefix(v)])
    /\ pc' = "stripped"
    /\ UNCHANGED <<gpt_data, columns, schedule, chunkVars, dateVars, unifyVars, adapterVars>>

\* df["Surgery Date"] = df["Surgery Date"].apply(lambda x: normalize_date_string(x)):
\* on a NaN cell date_str.split() raises AttributeError, which ends the run
NormalizeDates ==
    /\ pc = "stripped"
    /\ IF NaN \in ColumnValues(df, "Surgery Date")
       THEN pc' = "aborted" /\ df' = df
       ELSE /\ df' = MapColumn(df, "Surgery Date",
                        [v \in ColumnValues(df, "Surgery Date") |-> normalize_date_string(v)])
            /\ pc' = "normalized"
    /\ UNCHANGED <<gpt_data, columns, schedule, chunkVars, dateVars, unifyVars, adapterVars>>

\* df["ParsedDate"] = df["Surgery Date"].apply(parse_surgery_date)
ParseDates ==
    /\ pc = "normalized"
    /\ df' = [i \in 1..Len(df) |->
                 [df[i] EXCEPT !.cell =
                     [c \in DOMAIN df[i].cell \cup {"ParsedDate"} |->
                         IF c = "ParsedDate"
                         THEN parse_surgery_date(df[i].cell["Surgery Date"])
                         ELSE df[i].cell[c]]]]
    /\ columns' = Append(columns, "ParsedDate")
    /\ pc' = "parsed"
    /\ UNCHANGED <<gpt_data, schedule, chunkVars, dateVars, unifyVars, adapterVars>>

\* df.sort_values("ParsedDate", ascending=True, na_position="last", inplace=True)
SortByDate ==
    /\ pc = "parsed"
    /\ \E p \in SortOrders([i \in 1..Len(df) |-> df[i].cell["ParsedDate"]]) :
           df' = [i \in 1..Len(df) |-> df[p[i]]]
    /\ pc' = "sorted"
    /\ UNCHANGED <<gpt_data, columns, schedule, chunkVars, dateVars, unifyVars, adapterVars>>

\* df.drop(columns=["ParsedDate"], inplace=True); df = df[expected_cols]
SelectColumns ==
    /\ pc = "sorted"
    /\ columns' = Selected(columns)
    /\ df' = [i \in 1..Len(df) |->
                 [df[i] EXCEPT !.cell = [c \in SeqRange(Selected(columns)) |-> df[i].cell[c]]]]
    /\ pc' = "selected"
    /\ UNCHANGED <<gpt_data, schedule, chunkVars, dateVars, unifyVars, adapterVars>>

\* st.dataframe(df.fillna(""))
Display ==
    /\ pc = "selected"
    /\ schedule' = [i \in 1..Len(df) |->
                       [df[i] EXCEPT !.cell = [c \in DOMAIN df[i].cell |-> FillNa(df[i].cell[c])]]]
    /\ pc' = "done"
    /\ UNCHANGED <<gpt_data, columns, df, chunkVars, dateVars, unifyVars, adapterVars>>

Next ==
    \/ BuildFrame
    \/ FillColumns
    \/ UnifySurgeons
    \/ StripIDs
    \/ NormalizeDates
    \/ ParseDates
    \/ SortByDate
    \/ SelectColumns
    \/ Display

Init == InitApp

Spec == Init /\ [][Next]_vars

(*********************** the script: properties ****************************)

\* the list extract_with_gpt returns on a failure: one dict, its only key "Error"
IsErrorList(data) == Len(data) = 1 /\ DictKeys(data[1]) = {"Error"}

BlankExpectedFields(row) ==
    \A c \in SeqRange(expected_cols) : c \in DOMAIN row.cell /\ row.cell[c] = <<>>

\* C5 as stated: from the error marker list the run ends with a table of one
\* row whose five expected fields are blank and which still shows the error
\* under the marker key.
C5_ErrorVisible ==
    (IsErrorList(gpt_data) /\ pc = "done") =>
        /\ Len(schedule) = 1
        /\ BlankExpectedFields(schedule[1])
        /\ "Error" \in DOMAIN schedule[1].cell
        /\ schedule[1].cell["Error"] = DictGet(gpt_data[1], "Error")

\* C5, amended: from the error marker list the run does not abort and ends
\* with a table of one row whose five expected fields are blank; the table has
\* the five expected columns only, so the marker key and its message are not
\* in it.
C5_ErrorRowBlank ==
    IsErrorList(gpt_data) =>
        /\ pc # "aborted"
        /\ pc = "done" =>
              /\ Len(schedule) = 1
              /\ BlankExpectedFields(schedule[1])
              /\ DOMAIN schedule[1].cell = SeqRange(expected_cols)
              /\ "Error" \notin SeqRange(columns)

\* C5 is exercised: a run from the error marker list has shown its table.
C5_Witness ==
    /\ IsErrorList(gpt_data)
    /\ pc = "done"
    /\ Len(schedule) = 1

\* C6: the run never aborts, and every row of the table it ends with has all
\* five expected keys, a key its record lacks being the empty string.
C6_AllKeysPresent ==
    /\ pc # "aborted"
    /\ pc = "done" =>
          \A i \in 1..Len(schedule) :
              \A c \in SeqRange(expected_cols) :
                  /\ c \in DOMAIN schedule[i].cell
                  /\ c \notin DictKeys(gpt_data[schedule[i].label + 1])
                         => schedule[i].cell[c] = <<>>

\* the date a row of the table is sorted by: its Surgery Date, parsed
RowDate(row) == parse_surgery_date(row.cell["Surgery Date"])

\* C7: in the table shown, the rows with a parseable Surgery Date are in
\* ascending order of the parsed date (its year 2025), and every row whose
\* Surgery Date does not parse comes after all of them.
C7_SortedByDate ==
    pc = "done" =>
        \A i, j \in 1..Len(schedule) : i < j =>
            /\ IsNull(RowDate(schedule[i])) => IsNull(RowDate(schedule[j]))
            /\ (~IsNull(RowDate(schedule[i])) /\ ~IsNull(RowDate(schedule[j])))
                   => /\ ~DateBefore(RowDate(schedule[j]), RowDate(schedule[i]))
                      /\ RowDate(schedule[i])[1] = 2025
                      /\ RowDate(schedule[j])[1] = 2025

\* C7 is exercised: a table of three rows in which the sort has moved a later
\* record with an earlier date before an earlier record, and a first record
\* without a parseable date to the end.
C7_Witness ==
    /\ pc = "done"
    /\ Len(schedule) = 3
    /\ schedule[3].label = 0
    /\ IsNull(RowDate(schedule[3]))
    /\ schedule[1].label > schedule[2].label
    /\ DateBefore(RowDate(schedule[1]), RowDate(schedule[2]))

\* C8: the sort is stable: two rows of equal parsed dates, and two rows whose
\* dates both do not parse, are in the order of their records in gpt_data.
C8_Stable ==
    pc = "done" =>
        \A i, j \in 1..Len(schedule) :
            (i < j /\ RowDate(schedule[i]) = RowDate(schedule[j]))
                => schedule[i].label < schedule[j].label

====
